---- MODULE Spec2Model ----
(***************************************************************************)
(* Model of scripts/node_miner_weekly_scan.py (the weekly node/miner scan) *)
(* and of .github/scripts/update_xp_tracker.py.                            *)
(*                                                                         *)
(* Python values are represented as follows.                               *)
(*   - Optional[int]: the empty sequence <<>> is None, <<t>> is the int t. *)
(*   - a fetch error code: a string, NoErr standing for Python's None.     *)
(*   - a URL string: a record of its parts,                                *)
(*       pad ++ [scheme "://"] ++ host ++ [":" port] ++ tail ++ pad        *)
(*     (port 0: no port written; scheme "": no "scheme://" prefix).  The   *)
(*     domain is the URLs that are blank or have a non-empty host.         *)
(*   - str(x): the text Python prints for x (str(None) is the text None).  *)
(*   - age_h: the number of seconds n stands for the float n / 3600.       *)
(*   - the tracker file: the sequence of its lines; a line that starts     *)
(*     with "|" is the sequence of its cells as written between the pipes  *)
(*     (a text, and whether more blanks than one surround it); a cell text *)
(*     holds no "|".  An XP text is the number n written n or n.0.         *)
(***************************************************************************)
EXTENDS Integers, Sequences, FiniteSets, TLC

VARIABLES
    pc,               \* position of the running function
    args,             \* argparse.Namespace handed to build_report
    seed,             \* build_report: seed
    network_version,  \* build_report: network_version
    query_errors,     \* build_report: seed_health_err, epoch_err, nodes_err
    registry_map,     \* build_report: registry_map (identity -> row)
    registry_rows,    \* build_report: registry_rows
    discovered_urls,  \* build_report: discovered_urls
    node_urls,        \* build_report: node_urls
    node_rows,        \* build_report: node_rows
    node_miners,      \* build_report: node_miners, in insertion order
    fetch_log,        \* history: per queried node, the /health answer and the
                      \* error code of /api/miners
    version_mismatch, \* build_report: version_mismatch
    aggregate,        \* _aggregate_miners: aggregate
    fold_pos,         \* _aggregate_miners: position of the two nested loops
    folded,           \* history: the sightings folded so far (a set)
    report,           \* the value build_report returns
    call,             \* arguments of a call of a pure function
    ret,              \* the value that call returned
    content,          \* update_xp_tracker: the tracker text, as its lines
    initial_content,  \* history: the tracker text before the first award
    awards            \* history: the (actor, gained_xp) of the calls so far

vars == <<pc, args, seed, network_version, query_errors, registry_map,
          registry_rows, discovered_urls, node_urls, node_rows, node_miners,
          fetch_log, version_mismatch, aggregate, fold_pos, folded, report, call, ret,
          content, initial_content, awards>>

(***************************************************************************)
(* Python values                                                           *)
(***************************************************************************)
None == <<>>

Some(x) == <<x>>

NoErr == "null"

Max2(a, b) == IF a >= b THEN a ELSE b

SeqToSet(s) == {s[i] : i \in 1..Len(s)}

\* the k-th smallest member of a set of numbers
KthOf(S, k) == CHOOSE i \in S : Cardinality({j \in S : j < i}) = k - 1

SetMax(S) == CHOOSE t \in S : \A u \in S : u <= t

\* str.lower() on the host and scheme texts of the model
Lower(s) ==
    CASE s = "A" -> "a"
      [] s = "HTTPS" -> "https"
      [] s = "HTTP" -> "http"
      [] s = "None" -> "none"
      [] OTHER -> s

(***************************************************************************)
(* URLs                                                                    *)
(***************************************************************************)
Url(scheme, host, port, tail, pad) ==
    [scheme |-> scheme, host |-> host, port |-> port, tail |-> tail, pad |-> pad]

\* the empty string
EmptyUrl == Url("", "", 0, "", FALSE)

\* str.strip()
Strip(u) == [u EXCEPT !.pad = FALSE]

\* truth value of a str: non-empty (whitespace counts)
IsEmptyText(u) ==
    u.scheme = "" /\ u.host = "" /\ u.port = 0 /\ u.tail = "" /\ ~u.pad

normalize_base_url_NoDefaultScheme(raw) ==
    LET text == Strip(raw) IN
    IF IsEmptyText(text) THEN EmptyUrl
    ELSE Url(Lower(text.scheme), text.host, text.port, "", FALSE)

normalize_base_url(raw) ==
    LET text == Strip(raw) IN
    IF IsEmptyText(text) THEN EmptyUrl
    ELSE LET withScheme == IF text.scheme = "" THEN "https" ELSE text.scheme
             \* urlparse lower-cases the scheme and keeps the netloc as written
             scheme == Lower(withScheme)
         IN  Url(scheme, text.host, text.port, "", FALSE)

node_identity_PortOnlyWhenWritten(url) ==
    LET host == Lower(url.host)
    IN  IF url.port # 0 THEN host \o ":" \o ToString(url.port) ELSE host

\* f"{host}:{port}"; urlparse gives the hostname in lower case
node_identity(url) ==
    LET host == Lower(url.host)
        port == IF url.port # 0 THEN url.port
                ELSE IF Lower(url.scheme) = "https" THEN 443 ELSE 80
    IN  host \o ":" \o ToString(port)

(***************************************************************************)
(* Classifiers                                                             *)
(***************************************************************************)
SecondsPerHour == 3600

classify_node_host_OfflineFirst(is_active, online, node_version, net_version) ==
    IF ~online THEN <<FALSE, "investigate_offline">>
    ELSE IF ~is_active THEN <<FALSE, "inactive_no_payout">>
    ELSE IF net_version # "" /\ node_version # "" /\ node_version # net_version
         THEN <<TRUE, "pay_weekly_and_upgrade_node">>
    ELSE <<TRUE, "pay_weekly">>

classify_node_host(is_active, online, node_version, net_version) ==
    IF ~is_active THEN <<FALSE, "inactive_no_payout">>
    ELSE IF ~online THEN <<FALSE, "investigate_offline">>
    ELSE IF net_version # "" /\ node_version # "" /\ node_version # net_version
         THEN <<TRUE, "pay_weekly_and_upgrade_node">>
    ELSE <<TRUE, "pay_weekly">>

MinerVerdict(age, state, eligible, action) ==
    [age_h |-> age, state |-> state, weekly_eligible |-> eligible,
     suggested_action |-> action]

\* age_h <= window_h, age_h being n / 3600.0 and window_h a whole number
AgeWithin(n, window_h) == n <= window_h * SecondsPerHour

AgeWithin_Strict(n, window_h) == n < window_h * SecondsPerHour

classify_miner_age_Strict(last_attest_ts, now_ts, active_window_h, weekly_window_h) ==
    IF last_attest_ts = None \/ last_attest_ts = Some(0)
    THEN MinerVerdict(None, "unknown", FALSE, "request_status_or_upgrade")
    ELSE LET age == Max2(0, now_ts - last_attest_ts[1]) IN
         IF AgeWithin_Strict(age, active_window_h)
         THEN MinerVerdict(Some(age), "active", TRUE, "pay_weekly")
         ELSE IF AgeWithin_Strict(age, weekly_window_h)
         THEN MinerVerdict(Some(age), "stale_but_weekly_eligible", TRUE,
                           "pay_weekly_and_ping_health_check")
         ELSE MinerVerdict(Some(age), "inactive", FALSE, "restart_or_upgrade_miner")

classify_miner_age(last_attest_ts, now_ts, active_window_h, weekly_window_h) ==
    IF last_attest_ts = None \/ last_attest_ts = Some(0)
    THEN MinerVerdict(None, "unknown", FALSE, "request_status_or_upgrade")
    ELSE LET age == Max2(0, now_ts - last_attest_ts[1]) IN
         IF AgeWithin(age, active_window_h)
         THEN MinerVerdict(Some(age), "active", TRUE, "pay_weekly")
         ELSE IF AgeWithin(age, weekly_window_h)
         THEN MinerVerdict(Some(age), "stale_but_weekly_eligible", TRUE,
                           "pay_weekly_and_ping_health_check")
         ELSE MinerVerdict(Some(age), "inactive", FALSE, "restart_or_upgrade_miner")

(***************************************************************************)
(* Candidate nodes                                                         *)
(***************************************************************************)
RECURSIVE DedupeLoop_ByText(_, _, _, _)
DedupeLoop_ByText(values, i, out, seen) ==
    IF i > Len(values) THEN out
    ELSE LET norm == normalize_base_url(values[i]) IN
         IF IsEmptyText(norm) THEN DedupeLoop_ByText(values, i + 1, out, seen)
         ELSE IF norm \in seen THEN DedupeLoop_ByText(values, i + 1, out, seen)
         ELSE DedupeLoop_ByText(values, i + 1, Append(out, norm), seen \cup {norm})

\* the loop of _dedupe_preserve from its i-th value on, with out and seen so far
RECURSIVE DedupeLoop(_, _, _, _)
DedupeLoop(values, i, out, seen) ==
    IF i > Len(values) THEN out
    ELSE LET norm == normalize_base_url(values[i])
             key == node_identity(norm)
         IN  IF IsEmptyText(norm) THEN DedupeLoop(values, i + 1, out, seen)
             ELSE IF key \in seen THEN DedupeLoop(values, i + 1, out, seen)
             ELSE DedupeLoop(values, i + 1, Append(out, norm), seen \cup {key})

_dedupe_preserve(values) == DedupeLoop(values, 1, <<>>, {})

(***************************************************************************)
(* JSON payloads and fetch results                                         *)
(*   a JSON value is a record with a field kind: "none" (no payload),      *)
(*   "dict", "list", or "other" (any value of another type).               *)
(***************************************************************************)
JNone == [kind |-> "none"]

JOther == [kind |-> "other"]

\* what fetch_json returns: (payload, None) or (None, error code)
Fetched(payload) == [payload |-> payload, err |-> NoErr]

Failed(code) == [payload |-> JNone, err |-> code]

\* the url entry of a registry row: the key is absent, null, or holds a string
UrlAbsent == [kind |-> "absent", text |-> EmptyUrl]

UrlNull == [kind |-> "null", text |-> EmptyUrl]

UrlStr(u) == [kind |-> "str", text |-> u]

\* str(row.get("url", ""))
UrlFieldStr(f) ==
    CASE f.kind = "absent" -> EmptyUrl
      [] f.kind = "null" -> Url("", "None", 0, "", FALSE)
      [] OTHER -> f.text

\* truth value of row.get("url")
UrlFieldTruthy(f) == f.kind = "str" /\ ~IsEmptyText(f.text)

\* a registry row (a dict); node_id, name, wallet: "" when absent or null;
\* is_active: None when the key is absent
RegistryRow(url, node_id, name, wallet, is_active) ==
    [kind |-> "dict", url |-> url, node_id |-> node_id, name |-> name,
     wallet |-> wallet, is_active |-> is_active]

\* the {} that registry_map.get(key, {}) defaults to
NoRegistryRow == RegistryRow(UrlAbsent, "", "", "", None)

SelectDicts(raw_rows) == SelectSeq(raw_rows, LAMBDA r : r.kind = "dict")

RegistryRowsOf_DictOnly(nodes_payload) ==
    IF nodes_payload.kind = "dict" THEN SelectDicts(nodes_payload.nodes)
    ELSE <<>>

\* _registry_rows_to_map: rows
RegistryRowsOf(nodes_payload) ==
    CASE nodes_payload.kind = "dict" -> SelectDicts(nodes_payload.nodes)
      [] nodes_payload.kind = "list" -> SelectDicts(nodes_payload.items)
      [] OTHER -> <<>>

RegistryKey(row) == node_identity(normalize_base_url(UrlFieldStr(row.url)))

\* _registry_rows_to_map: mapped; a later row replaces an earlier one of its key
RegistryMapOf(rows) ==
    LET keys == {RegistryKey(rows[i]) : i \in 1..Len(rows)}
        last(k) == CHOOSE i \in 1..Len(rows) :
                       /\ RegistryKey(rows[i]) = k
                       /\ \A j \in (i + 1)..Len(rows) : RegistryKey(rows[j]) # k
    IN  [k \in keys |-> rows[last(k)]]

\* build_report: discovered_urls
DiscoveredUrls(seed_url, rows, extra) ==
    LET withUrl == SelectSeq(rows, LAMBDA r : UrlFieldTruthy(r.url))
    IN  <<seed_url>> \o [i \in 1..Len(withUrl) |-> Strip(UrlFieldStr(withUrl[i].url))]
                    \o extra

(***************************************************************************)
(* Miner aggregation                                                       *)
(*   a miner row of /api/miners is a dict with miner (a text: id, with or  *)
(*   without surrounding blanks), last_attest and device_family, or a      *)
(*   value of kind "other" that is no dict.                                *)
(*   last_attest: kind "absent" (no key, or null), "int" (the number v),  *)
(*   or "text" (a string that is no number).                               *)
(***************************************************************************)
LaAbsent == [kind |-> "absent", v |-> 0]

LaInt(n) == [kind |-> "int", v |-> n]

LaText == [kind |-> "text", v |-> 0]

MinerRow(id, pad, la, device) ==
    [kind |-> "dict", miner |-> [id |-> id, pad |-> pad], last_attest |-> la,
     device_family |-> device]

\* str(row.get("miner", "")).strip()
MinerIdOf(row) == row.miner.id

\* int(row.get("last_attest") or 0) raises ValueError
LastAttestRaises(row) == row.last_attest.kind = "text"

\* int(row.get("last_attest") or 0)
LastAttestOf(row) == IF row.last_attest.kind = "int" THEN row.last_attest.v ELSE 0

Folded(agg) == [raised |-> FALSE, aggregate |-> agg]

Raised(agg) == [raised |-> TRUE, aggregate |-> agg]

FoldOne_LastWins(agg, node_url, row) ==
    LET miner_id == MinerIdOf(row)
        last_attest == LastAttestOf(row)
    IN  IF miner_id = "" THEN Folded(agg)
        ELSE IF LastAttestRaises(row) THEN Raised(agg)
        ELSE IF miner_id \notin DOMAIN agg
        THEN Folded(agg @@ (miner_id :>
                 [miner |-> miner_id,
                  last_attest |-> IF last_attest > 0 THEN Some(last_attest) ELSE None,
                  device_family |-> row.device_family,
                  nodes_seen |-> <<node_url>>]))
        ELSE LET existing == agg[miner_id]
                 la == IF last_attest > 0 THEN Some(last_attest) ELSE None
                 seen == IF node_url \in SeqToSet(existing.nodes_seen)
                         THEN existing.nodes_seen
                         ELSE Append(existing.nodes_seen, node_url)
             IN  Folded([agg EXCEPT ![miner_id].last_attest = la,
                                    ![miner_id].nodes_seen = seen])

FoldOne_AlwaysAppend(agg, node_url, row) ==
    LET miner_id == MinerIdOf(row)
        last_attest == LastAttestOf(row)
    IN  IF miner_id = "" THEN Folded(agg)
        ELSE IF LastAttestRaises(row) THEN Raised(agg)
        ELSE IF miner_id \notin DOMAIN agg
        THEN Folded(agg @@ (miner_id :>
                 [miner |-> miner_id,
                  last_attest |-> IF last_attest > 0 THEN Some(last_attest) ELSE None,
                  device_family |-> row.device_family,
                  nodes_seen |-> <<node_url>>]))
        ELSE LET existing == agg[miner_id]
                 cur == IF existing.last_attest = None THEN 0 ELSE existing.last_attest[1]
                 la == IF last_attest # 0 /\ cur < last_attest
                       THEN Some(last_attest) ELSE existing.last_attest
             IN  Folded([agg EXCEPT ![miner_id].last_attest = la,
                                    ![miner_id].nodes_seen = Append(@, node_url)])

\* the body of the loops of _aggregate_miners for one row of one node
FoldOne(agg, node_url, row) ==
    LET miner_id == MinerIdOf(row)
        last_attest == LastAttestOf(row)
    IN  IF miner_id = "" THEN Folded(agg)
        ELSE IF LastAttestRaises(row) THEN Raised(agg)
        ELSE IF miner_id \notin DOMAIN agg
        THEN Folded(agg @@ (miner_id :>
                 [miner |-> miner_id,
                  last_attest |-> IF last_attest > 0 THEN Some(last_attest) ELSE None,
                  device_family |-> row.device_family,
                  nodes_seen |-> <<node_url>>]))
        ELSE LET existing == agg[miner_id]
                 cur == IF existing.last_attest = None THEN 0 ELSE existing.last_attest[1]
                 la == IF last_attest # 0 /\ cur < last_attest
                       THEN Some(last_attest) ELSE existing.last_attest
                 seen == IF node_url \in SeqToSet(existing.nodes_seen)
                         THEN existing.nodes_seen
                         ELSE Append(existing.nodes_seen, node_url)
             IN  Folded([agg EXCEPT ![miner_id].last_attest = la,
                                    ![miner_id].nodes_seen = seen])

\* the empty dict
EmptyAggregate == [m \in {} |-> 0]

(***************************************************************************)
(* build_report: rows and report                                           *)
(***************************************************************************)
\* the text "-"
DashUrl == Url("", "-", 0, "", FALSE)

\* a health payload that is a dict
HealthDict(ok, version, uptime_s) ==
    [kind |-> "dict", ok |-> ok, version |-> version, uptime_s |-> uptime_s]

JList(items) == [kind |-> "list", items |-> items]

NodesDict(nodes) == [kind |-> "dict", nodes |-> nodes]

IsDict(payload) == payload.kind = "dict"

OnlineOf_NoError(health) == health.err = NoErr

\* online = isinstance(health_payload, dict) and health_err is None
OnlineOf(health) == IsDict(health.payload) /\ health.err = NoErr

IsActiveOf_DefaultTrue(registry, node_url, seed_url) ==
    IF registry.is_active = None THEN TRUE ELSE registry.is_active[1]

\* bool(registry.get("is_active", True if node_url == seed else False))
IsActiveOf(registry, node_url, seed_url) ==
    IF registry.is_active = None THEN node_url = seed_url ELSE registry.is_active[1]

\* x or y, on texts
OrText(x, y) == IF x = "" THEN y ELSE x

\* the row of a queried node
QueriedRow(node_url, seed_url, registry, health, miners_err, net_version) ==
    LET key == node_identity(node_url)
        online == OnlineOf(health)
        node_version == IF IsDict(health.payload) THEN health.payload.version ELSE ""
        uptime_s == IF IsDict(health.payload) THEN health.payload.uptime_s ELSE None
        is_active == IsActiveOf(registry, node_url, seed_url)
        verdict == classify_node_host(is_active, online, node_version, net_version)
    IN  [node_id |-> OrText(registry.node_id, key),
         name |-> OrText(registry.name, key),
         wallet |-> registry.wallet,
         url |-> node_url,
         is_active |-> is_active,
         online |-> online,
         health_ok |-> IF IsDict(health.payload) THEN health.payload.ok ELSE FALSE,
         version |-> node_version,
         uptime_s |-> uptime_s,
         payout_eligible |-> verdict[1],
         suggested_action |-> verdict[2],
         health_error |-> health.err,
         miners_error |-> miners_err]

SyntheticRow_PaidWhenActive(row) ==
    [node_id |-> OrText(row.node_id, "unknown_node"),
     name |-> OrText(row.name, "unknown_node"),
     wallet |-> row.wallet,
     url |-> DashUrl,
     is_active |-> IF row.is_active = None THEN FALSE ELSE row.is_active[1],
     online |-> FALSE,
     health_ok |-> FALSE,
     version |-> "-",
     uptime_s |-> None,
     payout_eligible |-> IF row.is_active = None THEN FALSE ELSE row.is_active[1],
     suggested_action |-> "missing_url_or_redacted",
     health_error |-> "missing_url",
     miners_error |-> "missing_url"]

\* the row of a registered node without a URL
SyntheticRow(row) ==
    [node_id |-> OrText(row.node_id, "unknown_node"),
     name |-> OrText(row.name, "unknown_node"),
     wallet |-> row.wallet,
     url |-> DashUrl,
     is_active |-> IF row.is_active = None THEN FALSE ELSE row.is_active[1],
     online |-> FALSE,
     health_ok |-> FALSE,
     version |-> "-",
     uptime_s |-> None,
     payout_eligible |-> FALSE,
     suggested_action |-> "missing_url_or_redacted",
     health_error |-> "missing_url",
     miners_error |-> "missing_url"]

\* whether the loop over registry_rows appends a row for this one
AppendsMissingUrlRow(row, scanned_keys) ==
    LET raw_url == normalize_base_url(UrlFieldStr(row.url))
        key == IF IsEmptyText(raw_url) THEN "" ELSE node_identity(raw_url)
    IN  /\ ~(~IsEmptyText(raw_url) /\ key \in scanned_keys)
        /\ IsEmptyText(raw_url)

MissingUrlRows(rows, scanned_keys) ==
    LET missing == SelectSeq(rows, LAMBDA r : AppendsMissingUrlRow(r, scanned_keys))
    IN  [i \in 1..Len(missing) |-> SyntheticRow(missing[i])]

\* the (node_url, row) pairs in the order _aggregate_miners visits them
RECURSIVE SightingsFrom(_, _)
SightingsFrom(nm, i) ==
    IF i > Len(nm) THEN <<>>
    ELSE [k \in 1..Len(nm[i].rows) |-> [node_url |-> nm[i].node_url, row |-> nm[i].rows[k]]]
             \o SightingsFrom(nm, i + 1)

Sightings(nm) == SightingsFrom(nm, 1)

\* Python's order of the texts of the model: miner ids, and normalized URLs
MinerIdOrder == <<"alpha", "beta", "gamma">>

UrlOrder == << Url("http", "c", 0, "", FALSE),
               Url("https", "A", 443, "", FALSE),
               Url("https", "a", 0, "", FALSE),
               Url("https", "b", 8080, "", FALSE) >>

RankIn(order, x) == CHOOSE i \in 1..Len(order) : order[i] = x

\* sorted(S), for a set S of texts with the given order
SortedBy(S, order) ==
    LET idx == {RankIn(order, x) : x \in S}
    IN  [k \in 1..Cardinality(S) |-> order[KthOf(idx, k)]]

MinerRowBefore_ByMinerOnly(p, q) ==
    RankIn(MinerIdOrder, p.miner) < RankIn(MinerIdOrder, q.miner)

\* the key of miner_rows.sort: (age_h is None, age_h or 999999, miner); the
\* second parts are compared only when the first parts agree, so an age (in
\* seconds here) is never compared with the 999999 (hours) of a missing age
MinerRowBefore(p, q) ==
    LET pNone == p.age_h = None
        qNone == q.age_h = None
        pAge == IF pNone THEN 999999 ELSE p.age_h[1]
        qAge == IF qNone THEN 999999 ELSE q.age_h[1]
    IN  \/ (~pNone /\ qNone)
        \/ (pNone = qNone /\ pAge < qAge)
        \/ (pNone = qNone /\ pAge = qAge
               /\ RankIn(MinerIdOrder, p.miner) < RankIn(MinerIdOrder, q.miner))

\* the rows of S in the order of the sort key (the keys differ by miner)
SortMinerRows(S) ==
    [k \in 1..Cardinality(S) |->
        CHOOSE r \in S : Cardinality({q \in S : MinerRowBefore(q, r)}) = k - 1]

MinerRowOf(data, now_ts, active_window_h, weekly_window_h) ==
    LET c == classify_miner_age(data.last_attest, now_ts, active_window_h, weekly_window_h)
    IN  [miner |-> data.miner,
         last_attest |-> data.last_attest,
         age_h |-> c.age_h,
         state |-> c.state,
         weekly_eligible |-> c.weekly_eligible,
         suggested_action |-> c.suggested_action,
         device_family |-> data.device_family,
         nodes_seen |-> SortedBy(SeqToSet(data.nodes_seen), UrlOrder),
         node_count |-> Len(data.nodes_seen)]

MissingExpected_NotSubtracted(expected, observed_miners) ==
    SortedBy(expected, MinerIdOrder)

\* sorted(expected - observed_miners)
MissingExpected(expected, observed_miners) ==
    SortedBy(expected \ observed_miners, MinerIdOrder)

GapRow(miner_id) ==
    [miner |-> miner_id,
     state |-> "not_visible_in_public_api",
     weekly_eligible |-> FALSE,
     suggested_action |-> "check_node_url_then_upgrade_miner"]

CountWhere(rows, P(_)) == Cardinality({i \in 1..Len(rows) : P(rows[i])})

SummaryOf_OfflineIgnoresActive(nodes, miners, gaps, mismatch) ==
    [nodes_scanned |-> Len(nodes),
     active_nodes_online |-> CountWhere(nodes, LAMBDA n : n.is_active /\ n.online),
     active_nodes_offline |-> CountWhere(nodes, LAMBDA n : ~n.online),
     node_hosts_weekly_payout_eligible |-> CountWhere(nodes, LAMBDA n : n.payout_eligible),
     miners_observed |-> Len(miners),
     miners_weekly_payout_eligible |-> CountWhere(miners, LAMBDA m : m.weekly_eligible),
     expected_miners_missing |-> Len(gaps),
     version_mismatch_nodes |-> Len(mismatch)]

SummaryOf(nodes, miners, gaps, mismatch) ==
    [nodes_scanned |-> Len(nodes),
     active_nodes_online |-> CountWhere(nodes, LAMBDA n : n.is_active /\ n.online),
     active_nodes_offline |-> CountWhere(nodes, LAMBDA n : n.is_active /\ ~n.online),
     node_hosts_weekly_payout_eligible |-> CountWhere(nodes, LAMBDA n : n.payout_eligible),
     miners_observed |-> Len(miners),
     miners_weekly_payout_eligible |-> CountWhere(miners, LAMBDA m : m.weekly_eligible),
     expected_miners_missing |-> Len(gaps),
     version_mismatch_nodes |-> Len(mismatch)]

(***************************************************************************)
(* The expected-miners file                                                *)
(*   a text is a sequence of characters: "a", "b" (characters of an id),   *)
(*   ",", " " (whitespace) and "#"; the file is the sequence of its lines  *)
(***************************************************************************)
SetMin(S) == CHOOSE t \in S : \A u \in S : t <= u

\* str.strip() of a line
StripText(t) ==
    LET inked == {i \in 1..Len(t) : t[i] # " "}
    IN  IF inked = {} THEN <<>> ELSE SubSeq(t, SetMin(inked), SetMax(inked))

\* text.split("#", 1)[0].strip() if "#" in text, else text
CodePart(text) ==
    LET hashes == {i \in 1..Len(text) : text[i] = "#"}
    IN  IF hashes = {} THEN text ELSE StripText(SubSeq(text, 1, SetMin(hashes) - 1))

\* text.replace(",", " ")
ReplaceCommas(text) == [i \in 1..Len(text) |-> IF text[i] = "," THEN " " ELSE text[i]]

\* str.split(): the scan from the i-th character on, cur being the token begun
RECURSIVE SplitFrom(_, _, _, _)
SplitFrom(text, i, cur, out) ==
    LET closed == IF cur = <<>> THEN out ELSE Append(out, cur) IN
    IF i > Len(text) THEN closed
    ELSE IF text[i] = " " THEN SplitFrom(text, i + 1, <<>>, closed)
    ELSE SplitFrom(text, i + 1, Append(cur, text[i]), out)

LineTokens_CommentOnlyAtStart(line) ==
    LET text == StripText(line) IN
    IF text = <<>> \/ text[1] = "#" THEN {}
    ELSE {tok \in SeqToSet(SplitFrom(ReplaceCommas(text), 1, <<>>, <<>>)) :
             StripText(tok) # <<>>}

\* the ids one line of the file adds to expected
LineTokens(line) ==
    LET text == StripText(line) IN
    IF text = <<>> \/ text[1] = "#" THEN {}
    ELSE {tok \in SeqToSet(SplitFrom(ReplaceCommas(CodePart(text)), 1, <<>>, <<>>)) :
             StripText(tok) # <<>>}

\* load_expected_miners; lines is p.read_text().splitlines()
load_expected_miners(path, exists, lines) ==
    IF path = "" THEN [raised |-> FALSE, value |-> {}]
    ELSE IF ~exists THEN [raised |-> TRUE, value |-> {}]
    ELSE [raised |-> FALSE,
          value |-> UNION {LineTokens(lines[i]) : i \in 1..Len(lines)}]

(***************************************************************************)
(* update_xp_tracker.py: the leaderboard table                             *)
(***************************************************************************)
\* LEVELS, as (level, threshold) from the highest level down
LEVELS == << <<10, 18000>>, <<9, 12000>>, <<8, 8000>>, <<7, 5500>>, <<6, 3500>>,
             <<5, 2000>>, <<4, 1000>>, <<3, 500>>, <<2, 200>>, <<1, 0>> >>

\* level_for_xp: the first level of LEVELS whose threshold total_xp reaches
level_for_xp(total_xp) ==
    LET reached == {i \in 1..Len(LEVELS) : total_xp >= LEVELS[i][2]}
    IN  IF reached = {} THEN 1 ELSE LEVELS[SetMin(reached)][1]

\* a cell as written in a line of the file
Cell(text, pad) == [text |-> text, pad |-> pad]

\* the text of a number: n, or n.0 when decimal
XpText(n, decimal) == [n |-> n, decimal |-> decimal]

\* int(float(xp))
XpOf(xp) == xp.n

\* str(total_xp)
StrOfInt(n) == XpText(n, FALSE)

ProseLine == [kind |-> "prose", cells |-> <<>>]

HeaderLine == [kind |-> "header", cells |-> <<>>]

SeparatorLine == [kind |-> "separator", cells |-> <<>>]

RowLine(cells) == [kind |-> "row", cells |-> cells]

\* line.startswith("|")
StartsWithPipe(line) == line.kind # "prose"

\* the row dict parse_table_rows makes of the stripped parts of a line
RowOf(parts) ==
    [rank |-> parts[1], hunter |-> parts[2], wallet |-> parts[3], xp |-> parts[4],
     level |-> parts[5], last_action |-> parts[6], notes |-> parts[7]]

\* parse_table_rows: the index after the last line of the table
TableEnd(lines, table_start) ==
    LET stops == {i \in (table_start + 2)..Len(lines) : ~StartsWithPipe(lines[i])}
    IN  IF stops = {} THEN Max2(Len(lines) + 1, table_start + 2) ELSE SetMin(stops)

\* parse_table_rows: rows; p.strip() of each part, lines of 7 parts or more
parse_table_rows(lines, table_start) ==
    LET body == SubSeq(lines, table_start + 2, TableEnd(lines, table_start) - 1)
        wide == SelectSeq(body, LAMBDA l : Len(l.cells) >= 7)
    IN  [i \in 1..Len(wide) |-> RowOf([k \in 1..Len(wide[i].cells) |-> wide[i].cells[k].text])]

\* format_table_rows: "| {rank} | {hunter} | ... |", rank being the position
format_table_rows(rows) ==
    IF rows = <<>>
    THEN << RowLine(<< Cell("1", FALSE), Cell("_TBD_", FALSE), Cell("_TBD_", FALSE),
                       Cell(XpText(0, FALSE), FALSE), Cell("1", FALSE),
                       Cell("bootstrap", FALSE), Cell("tracker initialized", FALSE) >>) >>
    ELSE [i \in 1..Len(rows) |->
             RowLine(<< Cell(ToString(i), FALSE), Cell(rows[i].hunter, FALSE),
                        Cell(rows[i].wallet, FALSE), Cell(rows[i].xp, FALSE),
                        Cell(rows[i].level, FALSE), Cell(rows[i].last_action, FALSE),
                        Cell(rows[i].notes, FALSE) >>)]

FindActorRow_Never(rows, actor_name) == 0

\* the index of the first row of the actor, 0 when found is None
FindActorRow(rows, actor_name) ==
    LET at == {i \in 1..Len(rows) : rows[i].hunter = actor_name}
    IN  IF at = {} THEN 0 ELSE SetMin(at)

\* rows.sort(key=int(float(xp)), reverse=True): stable, equal keys keep
\* their order
SortByXpDescending(rows) ==
    LET before(i, j) == \/ XpOf(rows[i].xp) > XpOf(rows[j].xp)
                        \/ (XpOf(rows[i].xp) = XpOf(rows[j].xp) /\ i < j)
        at(k) == CHOOSE i \in 1..Len(rows) :
                     Cardinality({j \in 1..Len(rows) : before(j, i)}) = k - 1
    IN  [k \in 1..Len(rows) |-> rows[at(k)]]

\* update_leaderboard; action_note is shorter than 80 characters
update_leaderboard(text, actor, gained_xp, action_note) ==
    LET lines == text
        headers == {i \in 1..Len(lines) : lines[i].kind = "header"}
    IN  IF headers = {} THEN text
        ELSE
        LET header_idx == SetMin(headers)
            end_idx == TableEnd(lines, header_idx)
            rows == SelectSeq(parse_table_rows(lines, header_idx),
                              LAMBDA r : r.hunter # "_TBD_")
            actor_name == "@" \o actor
            at == FindActorRow(rows, actor_name)
            listed == IF at # 0 THEN rows
                      ELSE Append(rows, [rank |-> "0", hunter |-> actor_name,
                                         wallet |-> "_TBD_", xp |-> StrOfInt(0),
                                         level |-> "1", last_action |-> "first award",
                                         notes |-> "auto-tracked"])
            found == IF at # 0 THEN at ELSE Len(listed)
            total_xp == XpOf(listed[found].xp) + gained_xp
            updated == [listed EXCEPT ![found].xp = StrOfInt(total_xp),
                                      ![found].level = ToString(level_for_xp(total_xp)),
                                      ![found].last_action = action_note]
            table_lines == format_table_rows(SortByXpDescending(updated))
        IN  SubSeq(lines, 1, IF header_idx + 1 <= Len(lines) THEN header_idx + 1
                             ELSE Len(lines))
                \o table_lines \o SubSeq(lines, end_idx, Len(lines))

(***************************************************************************)
(* Variables a specification leaves alone                                  *)
(***************************************************************************)
buildVars == <<args, seed, network_version, query_errors, registry_map,
               registry_rows, discovered_urls, node_urls, node_rows,
               node_miners, fetch_log, version_mismatch, report>>

aggVars == <<aggregate, fold_pos, folded>>

callVars == <<call, ret>>

xpVars == <<content, initial_content, awards>>

NoQueryErrors == [seed_health |-> NoErr, seed_epoch |-> NoErr, seed_nodes |-> NoErr]

NoReport == [kind |-> "none"]

BuildIdle ==
    /\ args = [kind |-> "none"]
    /\ seed = EmptyUrl
    /\ network_version = ""
    /\ query_errors = NoQueryErrors
    /\ registry_map = EmptyAggregate
    /\ registry_rows = <<>>
    /\ discovered_urls = <<>>
    /\ node_urls = <<>>
    /\ node_rows = <<>>
    /\ node_miners = <<>>
    /\ fetch_log = <<>>
    /\ version_mismatch = <<>>
    /\ report = NoReport

AggIdle ==
    /\ aggregate = EmptyAggregate
    /\ fold_pos = 0
    /\ folded = {}

CallIdle ==
    /\ call = [fn |-> "none"]
    /\ ret = None

XpIdle ==
    /\ content = <<>>
    /\ initial_content = <<>>
    /\ awards = <<>>

BoundedSeq(S, n) == UNION {[1..k -> S] : k \in 0..n}

(***************************************************************************)
(* SpecPure: calls of the pure functions on bounded inputs                 *)
(***************************************************************************)
MaxWindowH == 3

MaxUrls == 3

VersionInputs == {"", "2.1.0", "2.2.1"}

NowTs == (MaxWindowH + 2) * SecondsPerHour

LastAttestInputs ==
    {None, Some(0), Some(0 - 1), Some(NowTs + 1)}
        \cup {Some(NowTs - h * SecondsPerHour + d) :
                 h \in 0..(MaxWindowH + 1), d \in {0 - 1, 0, 1}}

RawUrlInputs ==
    { EmptyUrl,
      Url("", "", 0, "", TRUE),
      Url("https", "a", 0, "", FALSE),
      Url("", "a", 0, "/", TRUE),
      Url("HTTPS", "A", 443, "/", FALSE),
      Url("http", "a", 0, "", FALSE),
      Url("http", "a", 80, "/x", FALSE),
      Url("", "b", 8080, "", FALSE) }

NodeHostCalls ==
    [fn : {"classify_node_host"}, is_active : BOOLEAN, online : BOOLEAN,
     node_version : VersionInputs, network_version : VersionInputs]

MinerAgeCalls ==
    [fn : {"classify_miner_age"}, last_attest_ts : LastAttestInputs,
     now_ts : {NowTs}, active_window_h : 1..MaxWindowH,
     weekly_window_h : 1..MaxWindowH]

DedupeCalls == [fn : {"_dedupe_preserve"}, values : BoundedSeq(RawUrlInputs, MaxUrls)]

\* spellings of the nodes a and A: scheme in either case or left out, port
\* left out or written, trailing slash or none, surrounding blanks or none
SpellingInputs ==
    {Url(scheme, host, port, tail, pad) :
        scheme \in {"", "https", "HTTPS", "http", "HTTP"}, host \in {"a", "A"},
        port \in {0, 80, 443, 8080}, tail \in {"", "/"}, pad \in BOOLEAN}

NodeIdentityCalls == [fn : {"node_identity"}, raw : SpellingInputs]

MaxLineLen == 3

LineInputs == BoundedSeq({"a", "b", ",", " ", "#"}, MaxLineLen)

\* a second line of a file: blank, a comment, an id, an id and a comment
OtherLineInputs == { <<>>, <<"#", "b">>, <<"a">>, <<"b", "#", "a">> }

\* files of one line, or of that line before or after another one
FileInputs ==
    {<<l>> : l \in LineInputs}
        \cup {<<l, o>> : l \in LineInputs, o \in OtherLineInputs}
        \cup {<<o, l>> : l \in LineInputs, o \in OtherLineInputs}

ExpectedFileCalls ==
    [fn : {"load_expected_miners"}, path : {"miners.txt"}, exists : {TRUE}, lines : FileInputs]
        \cup [fn : {"load_expected_miners"}, path : {"", "miners.txt"}, exists : {FALSE},
              lines : {<<>>}]

InitPure ==
    /\ pc = "call"
    /\ call \in NodeHostCalls \cup MinerAgeCalls \cup DedupeCalls \cup NodeIdentityCalls
                  \cup ExpectedFileCalls
    /\ ret = None
    /\ BuildIdle
    /\ AggIdle
    /\ XpIdle

CallClassifyNodeHost ==
    /\ pc = "call"
    /\ call.fn = "classify_node_host"
    /\ ret' = classify_node_host(call.is_active, call.online, call.node_version,
                                 call.network_version)
    /\ pc' = "returned"
    /\ UNCHANGED <<call, buildVars, aggVars, xpVars>>

CallClassifyMinerAge ==
    /\ pc = "call"
    /\ call.fn = "classify_miner_age"
    /\ ret' = classify_miner_age(call.last_attest_ts, call.now_ts,
                                 call.active_window_h, call.weekly_window_h)
    /\ pc' = "returned"
    /\ UNCHANGED <<call, buildVars, aggVars, xpVars>>

CallDedupePreserve ==
    /\ pc = "call"
    /\ call.fn = "_dedupe_preserve"
    /\ ret' = _dedupe_preserve(call.values)
    /\ pc' = "returned"
    /\ UNCHANGED <<call, buildVars, aggVars, xpVars>>

\* node_identity(normalize_base_url(raw)), as _dedupe_preserve and
\* _registry_rows_to_map compute the key of a URL
CallNodeIdentity ==
    /\ pc = "call"
    /\ call.fn = "node_identity"
    /\ ret' = node_identity(normalize_base_url(call.raw))
    /\ pc' = "returned"
    /\ UNCHANGED <<call, buildVars, aggVars, xpVars>>

CallLoadExpectedMiners ==
    /\ pc = "call"
    /\ call.fn = "load_expected_miners"
    /\ ret' = load_expected_miners(call.path, call.exists, call.lines)
    /\ pc' = "returned"
    /\ UNCHANGED <<call, buildVars, aggVars, xpVars>>

NextPure ==
    \/ CallClassifyNodeHost
    \/ CallClassifyMinerAge
    \/ CallDedupePreserve
    \/ CallNodeIdentity
    \/ CallLoadExpectedMiners

SpecPure == InitPure /\ [][NextPure]_vars

(***************************************************************************)
(* SpecAgg: _aggregate_miners folding the rows of a dict of nodes, the     *)
(* rows of one node after those of another, in every order                 *)
(***************************************************************************)
MaxSightings == 3

AggNodeInputs == {Url("https", "a", 0, "", FALSE), Url("https", "b", 8080, "", FALSE)}

AggRowInputs ==
    {MinerRow(id, FALSE, la, "x86") :
        id \in {"", "alpha", "beta"},
        la \in {LaAbsent, LaInt(0), LaInt(0 - 1), LaInt(5), LaInt(9)}}
    \cup {MinerRow("alpha", TRUE, la, "ppc") : la \in {LaAbsent, LaInt(5), LaInt(9)}}

InitAgg ==
    /\ pc = "fold"
    /\ aggregate = EmptyAggregate
    /\ fold_pos = [cur |-> EmptyUrl, visited |-> {}, n |-> 0]
    /\ folded = {}
    /\ BuildIdle
    /\ CallIdle
    /\ XpIdle

\* for node_url, rows in node_miners.items(): the next key of the dict
AggNextNode ==
    /\ pc = "fold"
    /\ \E u \in AggNodeInputs \ fold_pos.visited :
           fold_pos' = [fold_pos EXCEPT !.cur = u, !.visited = @ \cup {u}]
    /\ UNCHANGED <<pc, aggregate, folded, buildVars, callVars, xpVars>>

\* for row in rows: the next row of the current node
AggFoldRow ==
    /\ pc = "fold"
    /\ fold_pos.cur \in fold_pos.visited
    /\ fold_pos.n < MaxSightings
    /\ \E row \in AggRowInputs :
           LET r == FoldOne(aggregate, fold_pos.cur, row) IN
           /\ pc' = IF r.raised THEN "raised" ELSE "fold"
           /\ aggregate' = r.aggregate
           /\ folded' = IF r.raised THEN folded
                        ELSE folded \cup {[node_url |-> fold_pos.cur, row |-> row]}
           /\ fold_pos' = [fold_pos EXCEPT !.n = @ + 1]
    /\ UNCHANGED <<buildVars, callVars, xpVars>>

NextAgg ==
    \/ AggNextNode
    \/ AggFoldRow

SpecAgg == InitAgg /\ [][NextAgg]_vars

(***************************************************************************)
(* Spec: one run of build_report                                           *)
(*   pc: "start" -> "query" (once per candidate node) -> "aggregate" (once *)
(*   per sighting) -> "done", or "raised" when an exception leaves it.     *)
(*   The answers of the nodes are chosen when they are fetched.            *)
(***************************************************************************)
MaxRegistryRows == 1

MaxMinerRows == 2

SeedInputs == {Url("HTTPS", "a", 0, "/", FALSE)}

\* args.node_url: a node that is not registered, or another spelling of the
\* seed followed by a blank
OperatorUrlInputs ==
    { << Url("", "b", 8080, "", FALSE) >>,
      << Url("https", "A", 443, "", FALSE), Url("", "", 0, "", TRUE) >> }

\* args.expected_miner
ExpectedMinerInputs == { <<"gamma", "beta", "alpha", "gamma">> }

ArgsInputs ==
    [seed_node : SeedInputs, node_url : OperatorUrlInputs,
     expected_miner : ExpectedMinerInputs, expected_miners_file : {""},
     active_window_hours : {1}, weekly_window_hours : {2}]

\* the answers of the seed to /health and /epoch: both fail, both succeed, or
\* /epoch fails on a seed that runs the older version
SeedAnswerInputs ==
    { <<Failed("timeout"), Failed("http_500")>>,
      <<Fetched(HealthDict(TRUE, "2.2.1", Some(60))), Fetched([kind |-> "dict", epoch |-> 7])>>,
      <<Fetched(HealthDict(TRUE, "2.1.0", Some(60))), Failed("http_500")>> }

RegistryRowInputs ==
    { RegistryRow(UrlStr(Url("http", "c", 0, "/", FALSE)), "n1", "one", "w1", Some(TRUE)),
      RegistryRow(UrlStr(Url("", "b", 8080, "", FALSE)), "n2", "", "", Some(FALSE)),
      RegistryRow(UrlNull, "n3", "three", "w3", Some(TRUE)),
      RegistryRow(UrlAbsent, "", "", "", None),
      RegistryRow(UrlStr(Url("", "", 0, "", TRUE)), "n5", "five", "w5", Some(TRUE)) }

\* /api/nodes: an error, a value that is no dict or list, {"nodes": rows}, or
\* a bare list (here of a value that is no dict, then a row)
NodesInputs ==
    { Failed("url_error:refused"), Fetched(JOther) }
        \cup {Fetched(NodesDict(rows)) : rows \in BoundedSeq(RegistryRowInputs, MaxRegistryRows)}
        \cup {Fetched(JList(<<JOther, r>>)) : r \in RegistryRowInputs}

HealthInputs ==
    { Failed("timeout"),
      Fetched(HealthDict(TRUE, "2.2.1", Some(60))),
      Fetched(JOther) }

MinerRowInputs ==
    { MinerRow("alpha", FALSE, LaInt(NowTs - 1800), "x86"),
      MinerRow("beta", TRUE, LaInt(NowTs - 3 * SecondsPerHour), "ppc"),
      MinerRow("beta", FALSE, LaText, "ppc"),
      JOther }

\* the lists a node answers /api/miners with: any single row, and lists whose
\* rows come in another order than the one the report gives the miners
MinerListInputs ==
    BoundedSeq(MinerRowInputs, 1)
        \cup { << MinerRow("alpha", FALSE, LaAbsent, "x86"),
                  MinerRow("beta", FALSE, LaInt(NowTs - 1800), "ppc") >>,
               << MinerRow("beta", FALSE, LaInt(NowTs - 1800), "ppc"),
                  MinerRow("alpha", FALSE, LaInt(NowTs - 1800), "x86") >>,
               << MinerRow("gamma", FALSE, LaInt(NowTs - 1), "x86"),
                  JOther,
                  MinerRow("alpha", FALSE, LaInt(NowTs - 1800), "x86") >> }

\* the answers of /api/miners that hold at most n rows
MinersInputs(n) ==
    { Failed("http_500"), Fetched(JOther) }
        \cup {Fetched(JList(rows)) : rows \in {l \in MinerListInputs : Len(l) <= n}}

RowsFetched(nm) == Len(Sightings(nm))

Init ==
    /\ pc = "start"
    /\ args \in ArgsInputs
    /\ seed = EmptyUrl
    /\ network_version = ""
    /\ query_errors = NoQueryErrors
    /\ registry_map = EmptyAggregate
    /\ registry_rows = <<>>
    /\ discovered_urls = <<>>
    /\ node_urls = <<>>
    /\ node_rows = <<>>
    /\ node_miners = <<>>
    /\ fetch_log = <<>>
    /\ version_mismatch = <<>>
    /\ report = NoReport
    /\ AggIdle
    /\ CallIdle
    /\ XpIdle

\* build_report, to the end of the candidate list
FetchSeed ==
    /\ pc = "start"
    /\ \E answer \in SeedAnswerInputs, nodes \in NodesInputs :
           LET seed_health == answer[1]
               epoch == answer[2]
               seed_url == normalize_base_url(args.seed_node)
               rows == RegistryRowsOf(nodes.payload)
               urls == DiscoveredUrls(seed_url, rows, args.node_url)
           IN  /\ seed' = seed_url
               /\ network_version' = IF IsDict(seed_health.payload)
                                     THEN seed_health.payload.version ELSE ""
               /\ query_errors' = [seed_health |-> seed_health.err,
                                   seed_epoch |-> epoch.err,
                                   seed_nodes |-> nodes.err]
               /\ report' = [kind |-> "partial",
                             epoch |-> IF IsDict(epoch.payload) THEN epoch.payload ELSE JNone,
                             health |-> IF IsDict(seed_health.payload)
                                        THEN seed_health.payload ELSE JNone]
               /\ registry_rows' = rows
               /\ registry_map' = RegistryMapOf(rows)
               /\ discovered_urls' = urls
               /\ node_urls' = _dedupe_preserve(urls)
    /\ pc' = "query"
    /\ UNCHANGED <<args, node_rows, node_miners, fetch_log, version_mismatch,
                   aggVars, callVars, xpVars>>

\* build_report: one pass of the loop over node_urls
QueryNode ==
    /\ pc = "query"
    /\ Len(node_rows) < Len(node_urls)
    /\ \E health \in HealthInputs,
          miners \in MinersInputs(MaxMinerRows - RowsFetched(node_miners)) :
           LET node_url == node_urls[Len(node_rows) + 1]
               key == node_identity(node_url)
               registry == IF key \in DOMAIN registry_map THEN registry_map[key]
                           ELSE NoRegistryRow
               row == QueriedRow(node_url, seed, registry, health, miners.err, network_version)
               miners_list == IF miners.payload.kind = "list"
                              THEN SelectDicts(miners.payload.items) ELSE <<>>
           IN  /\ version_mismatch' =
                      IF row.suggested_action = "pay_weekly_and_upgrade_node"
                      THEN Append(version_mismatch,
                                  [node_url |-> node_url,
                                   node_id |-> registry.node_id,
                                   node_version |-> row.version,
                                   network_version |-> network_version])
                      ELSE version_mismatch
               /\ node_rows' = Append(node_rows, row)
               /\ node_miners' = Append(node_miners,
                                        [node_url |-> node_url, rows |-> miners_list])
               /\ fetch_log' = Append(fetch_log, [health |-> health, miners_err |-> miners.err])
    /\ UNCHANGED <<pc, args, seed, network_version, query_errors, registry_map,
                   registry_rows, discovered_urls, node_urls, report, aggVars, callVars, xpVars>>

\* build_report: the rows of the registered nodes without a URL
AppendMissingUrlRows ==
    /\ pc = "query"
    /\ Len(node_rows) = Len(node_urls)
    /\ LET scanned_keys == {node_identity(node_rows[i].url) : i \in 1..Len(node_rows)}
       IN  node_rows' = node_rows \o MissingUrlRows(registry_rows, scanned_keys)
    /\ pc' = "aggregate"
    /\ fold_pos' = 1
    /\ UNCHANGED <<args, seed, network_version, query_errors, registry_map,
                   registry_rows, discovered_urls, node_urls, node_miners,
                   fetch_log, version_mismatch, report, aggregate, folded, callVars, xpVars>>

\* _aggregate_miners: one row of one node
FoldSighting ==
    /\ pc = "aggregate"
    /\ fold_pos <= Len(Sightings(node_miners))
    /\ LET s == Sightings(node_miners)[fold_pos]
           r == FoldOne(aggregate, s.node_url, s.row)
       IN  /\ pc' = IF r.raised THEN "raised" ELSE "aggregate"
           /\ aggregate' = r.aggregate
           /\ folded' = IF r.raised THEN folded ELSE folded \cup {s}
    /\ fold_pos' = fold_pos + 1
    /\ UNCHANGED <<buildVars, callVars, xpVars>>

\* build_report, from the miner rows to the return
CompileReport ==
    /\ pc = "aggregate"
    /\ fold_pos > Len(Sightings(node_miners))
    /\ LET miner_rows ==
               SortMinerRows({MinerRowOf(aggregate[m], NowTs, args.active_window_hours,
                                         args.weekly_window_hours) : m \in DOMAIN aggregate})
           expected == SeqToSet(args.expected_miner)
           observed_miners == {miner_rows[i].miner : i \in 1..Len(miner_rows)}
           missing_expected == MissingExpected(expected, observed_miners)
           gaps == [i \in 1..Len(missing_expected) |-> GapRow(missing_expected[i])]
       IN  report' = [kind |-> "report",
                      seed_node |-> seed,
                      query_errors |-> query_errors,
                      network |-> [version |-> network_version,
                                   epoch |-> report.epoch,
                                   health |-> report.health],
                      summary |-> SummaryOf(node_rows, miner_rows, gaps, version_mismatch),
                      nodes |-> node_rows,
                      miners |-> miner_rows,
                      expected_miners_missing_rows |-> gaps,
                      version_mismatch_nodes |-> version_mismatch]
    /\ pc' = "done"
    /\ UNCHANGED <<args, seed, network_version, query_errors, registry_map,
                   registry_rows, discovered_urls, node_urls, node_rows, node_miners,
                   fetch_log, version_mismatch, aggVars, callVars, xpVars>>

Next ==
    \/ FetchSeed
    \/ QueryNode
    \/ AppendMissingUrlRows
    \/ FoldSighting
    \/ CompileReport

Spec == Init /\ [][Next]_vars

(***************************************************************************)
(* SpecXp: update_leaderboard called again and again on the tracker text   *)
(***************************************************************************)
MaxAwards == 3

ActorInputs == {"alice", "bob", "carol"}

\* gains that cross no level, one level (480 + 20 = 500), or all of them
GainInputs == {20, 480, 18000}

\* the tracker as first written, with the placeholder row; and a table of two
\* hunters in cells with extra blanks, not yet in XP order nor ranked
ContentInputs ==
    { << ProseLine, HeaderLine, SeparatorLine,
         RowLine(<< Cell("1", FALSE), Cell("_TBD_", FALSE), Cell("_TBD_", FALSE),
                    Cell(XpText(0, FALSE), FALSE), Cell("1", FALSE),
                    Cell("bootstrap", FALSE), Cell("tracker initialized", FALSE) >>),
         ProseLine >>,
      << HeaderLine, SeparatorLine,
         RowLine(<< Cell("1", TRUE), Cell("@alice", TRUE), Cell("w1", FALSE),
                    Cell(XpText(480, FALSE), TRUE), Cell("2", FALSE),
                    Cell("joined", FALSE), Cell("founder", TRUE) >>),
         RowLine(<< Cell("7", FALSE), Cell("@bob", FALSE), Cell("_TBD_", FALSE),
                    Cell(XpText(600, TRUE), FALSE), Cell("3", FALSE),
                    Cell("joined", FALSE), Cell("veteran", FALSE) >>) >>,
      << HeaderLine, SeparatorLine,
         RowLine(<< Cell("1", FALSE), Cell("@bob", FALSE), Cell("w2", FALSE),
                    Cell(XpText(500, FALSE), FALSE), Cell("3", FALSE),
                    Cell("joined", FALSE), Cell("veteran", FALSE) >>),
         ProseLine,
         RowLine(<< Cell("x", FALSE) >>) >> }

InitXp ==
    /\ pc = "tracker"
    /\ content \in ContentInputs
    /\ initial_content = content
    /\ awards = <<>>
    /\ BuildIdle
    /\ AggIdle
    /\ CallIdle

\* one call of update_leaderboard on the text the previous call returned
UpdateLeaderboard ==
    /\ pc = "tracker"
    /\ Len(awards) < MaxAwards
    /\ \E actor \in ActorInputs, gained_xp \in GainInputs :
           /\ content' = update_leaderboard(content, actor, gained_xp, "PR merged (+300 XP)")
           /\ awards' = Append(awards, [actor |-> actor, gained_xp |-> gained_xp])
    /\ UNCHANGED <<pc, initial_content, buildVars, aggVars, callVars>>

NextXp ==
    \/ UpdateLeaderboard

SpecXp == InitXp /\ [][NextXp]_vars

(***************************************************************************)
(* Properties of the pure functions (SpecPure)                             *)
(***************************************************************************)
Returned(fn) == pc = "returned" /\ call.fn = fn

\* C2: the list _dedupe_preserve returns holds no empty entry and no two
\* entries of one node identity; its entries are the normalized forms of the
\* first occurrence of each identity among the non-empty inputs, in the order
\* of those first occurrences (so a non-empty first input, the seed, is first).
C2_DedupeKeepsFirstOccurrences ==
    Returned("_dedupe_preserve") =>
        LET values == call.values
            norm(i) == normalize_base_url(values[i])
            live == {i \in 1..Len(values) : ~IsEmptyText(norm(i))}
            first == {i \in live : \A j \in live :
                         j < i => node_identity(norm(j)) # node_identity(norm(i))}
        IN  /\ \A k \in 1..Len(ret) : ~IsEmptyText(ret[k])
            /\ \A k, l \in 1..Len(ret) :
                   k # l => node_identity(ret[k]) # node_identity(ret[l])
            /\ Len(ret) = Cardinality(first)
            /\ \A k \in 1..Len(ret) : ret[k] = norm(KthOf(first, k))
            /\ (1 \in live => ret[1] = norm(1))

\* C2 witness: a blank entry and a later spelling of the first entry's node
\* (other scheme case, default port written, trailing slash) were both dropped
C2_Witness ==
    /\ Returned("_dedupe_preserve")
    /\ call.values = << Url("https", "a", 0, "", FALSE),
                        Url("", "", 0, "", TRUE),
                        Url("HTTPS", "A", 443, "/", FALSE) >>
    /\ ret = << Url("https", "a", 0, "", FALSE) >>

\* C5: classify_node_host gives a verdict for every input, by precedence:
\* not active -> (false, inactive_no_payout); active and offline ->
\* (false, investigate_offline); active, online, both versions non-empty and
\* unequal -> (true, pay_weekly_and_upgrade_node); otherwise (true, pay_weekly).
C5_NodeHostPrecedence ==
    Returned("classify_node_host") =>
        LET a == call.is_active
            o == call.online
            nv == call.node_version
            net == call.network_version
            mismatch == nv # "" /\ net # "" /\ nv # net
        IN  /\ ~a => ret = <<FALSE, "inactive_no_payout">>
            /\ (a /\ ~o) => ret = <<FALSE, "investigate_offline">>
            /\ (a /\ o /\ mismatch) => ret = <<TRUE, "pay_weekly_and_upgrade_node">>
            /\ (a /\ o /\ (nv = net \/ nv = "" \/ net = "")) => ret = <<TRUE, "pay_weekly">>

\* C5 witness: an inactive node that is also offline and on another version
C5_Witness ==
    /\ Returned("classify_node_host")
    /\ ~call.is_active
    /\ ~call.online
    /\ call.node_version = "2.1.0"
    /\ call.network_version = "2.2.1"
    /\ ret = <<FALSE, "inactive_no_payout">>

\* C6: classify_miner_age: an absent or zero timestamp gives unknown, not
\* eligible, no age; otherwise the age is max(0, now - ts) seconds (/ 3600 in
\* hours) and the bands are tested in order with inclusive bounds: within the
\* active window active, else within the weekly window stale_but_weekly_eligible,
\* else inactive.
C6_MinerAgeBands ==
    Returned("classify_miner_age") =>
        LET ts == call.last_attest_ts
            a == call.active_window_h * SecondsPerHour
            w == call.weekly_window_h * SecondsPerHour
        IN  IF ts = None \/ ts = Some(0)
            THEN /\ ret.state = "unknown"
                 /\ ~ret.weekly_eligible
                 /\ ret.age_h = None
            ELSE LET d == call.now_ts - ts[1]
                     age == IF d < 0 THEN 0 ELSE d
                 IN  /\ ret.age_h = Some(age)
                     /\ age <= a =>
                            /\ ret.state = "active"
                            /\ ret.weekly_eligible
                            /\ ret.suggested_action = "pay_weekly"
                     /\ (age > a /\ age <= w) =>
                            /\ ret.state = "stale_but_weekly_eligible"
                            /\ ret.weekly_eligible
                            /\ ret.suggested_action = "pay_weekly_and_ping_health_check"
                     /\ (age > a /\ age > w) =>
                            /\ ret.state = "inactive"
                            /\ ~ret.weekly_eligible
                            /\ ret.suggested_action = "restart_or_upgrade_miner"

\* C6 witness: an age exactly equal to the weekly window, past the active one
C6_Witness ==
    /\ Returned("classify_miner_age")
    /\ call.active_window_h = 1
    /\ call.weekly_window_h = 2
    /\ call.last_attest_ts = Some(call.now_ts - 2 * SecondsPerHour)
    /\ ret.state = "stale_but_weekly_eligible"
    /\ ret.age_h = Some(2 * SecondsPerHour)

(***************************************************************************)
(* Properties of the aggregation (SpecAgg)                                 *)
(***************************************************************************)
SightingsOf(m) == {s \in folded : MinerIdOf(s.row) = m}

PositiveTimestamps(m) == {t \in {LastAttestOf(s.row) : s \in SightingsOf(m)} : t > 0}

\* C3: whatever the order in which the nodes and their rows were folded, the
\* aggregate is a function of the set of sightings folded: one record per
\* non-blank miner id, last_attest the largest strictly positive timestamp
\* (None when there is none), and nodes_seen the reporting nodes, each once.
C3_AggregateIsOrderIndependent ==
    pc = "fold" =>
        /\ DOMAIN aggregate = {MinerIdOf(s.row) : s \in folded} \ {""}
        /\ \A m \in DOMAIN aggregate :
               /\ aggregate[m].last_attest =
                      IF PositiveTimestamps(m) = {} THEN None
                      ELSE Some(SetMax(PositiveTimestamps(m)))
               /\ \A i, j \in 1..Len(aggregate[m].nodes_seen) :
                      i # j => aggregate[m].nodes_seen[i] # aggregate[m].nodes_seen[j]
               /\ SeqToSet(aggregate[m].nodes_seen) = {s.node_url : s \in SightingsOf(m)}

\* C3 witness: one node reported alpha twice, another node once, and a row
\* with a blank id was folded too
C3_Witness ==
    /\ pc = "fold"
    /\ folded = { [node_url |-> Url("https", "a", 0, "", FALSE),
                   row |-> MinerRow("alpha", FALSE, LaInt(5), "x86")],
                  [node_url |-> Url("https", "a", 0, "", FALSE),
                   row |-> MinerRow("alpha", TRUE, LaInt(9), "ppc")],
                  [node_url |-> Url("https", "b", 8080, "", FALSE),
                   row |-> MinerRow("", FALSE, LaInt(9), "x86")] }
    /\ DOMAIN aggregate = {"alpha"}
    /\ aggregate["alpha"].last_attest = Some(9)
    /\ Len(aggregate["alpha"].nodes_seen) = 1

\* C4: in every step of the fold, a miner that holds a timestamp keeps its
\* record, and holds a timestamp that is not smaller.
C4_LastAttestNeverDecreases ==
    [][\A m \in DOMAIN aggregate :
           aggregate[m].last_attest # None =>
               /\ m \in DOMAIN aggregate'
               /\ aggregate'[m].last_attest # None
               /\ aggregate'[m].last_attest[1] >= aggregate[m].last_attest[1]]_vars

\* C4 witness: alpha was seen at 9 by the first node, and after that at 5 and
\* with a negative timestamp by the second
C4_Witness ==
    /\ pc = "fold"
    /\ folded = { [node_url |-> Url("https", "a", 0, "", FALSE),
                   row |-> MinerRow("alpha", FALSE, LaInt(9), "x86")],
                  [node_url |-> Url("https", "b", 8080, "", FALSE),
                   row |-> MinerRow("alpha", FALSE, LaInt(5), "x86")],
                  [node_url |-> Url("https", "b", 8080, "", FALSE),
                   row |-> MinerRow("alpha", FALSE, LaInt(0 - 1), "x86")] }
    /\ aggregate["alpha"].nodes_seen = << Url("https", "a", 0, "", FALSE),
                                          Url("https", "b", 8080, "", FALSE) >>
    /\ aggregate["alpha"].last_attest = Some(9)

(***************************************************************************)
(* Properties of build_report (Spec)                                       *)
(***************************************************************************)
\* the registry row has no URL to query: url is missing, null or blank
Unresolvable(r) ==
    r.url.kind # "str" \/ IsEmptyText(normalize_base_url(r.url.text))

\* the rows of the report that stand for registered nodes without a URL
SyntheticRows == SubSeq(report.nodes, Len(node_urls) + 1, Len(report.nodes))

\* C1: in the report, every candidate node has its row, no two of these rows
\* share an identity, every registry row with a URL is covered by exactly one
\* of them, and every registry row whose url is missing, null or blank has its
\* synthetic row (missing_url_or_redacted, not online), nothing else.
C1_EveryRegistryRowAndCandidateOnce ==
    pc = "done" =>
        LET rows == report.nodes
            nq == Len(node_urls)
            unresolved == SelectSeq(registry_rows, Unresolvable)
        IN  /\ Len(rows) >= nq
            /\ \A k \in 1..nq : rows[k].url = node_urls[k]
            /\ \A k, l \in 1..nq :
                   k # l => node_identity(rows[k].url) # node_identity(rows[l].url)
            /\ \A i \in 1..Len(registry_rows) :
                   ~Unresolvable(registry_rows[i]) =>
                       Cardinality({k \in 1..nq : node_identity(rows[k].url) =
                           node_identity(normalize_base_url(registry_rows[i].url.text))}) = 1
            /\ SyntheticRows = [i \in 1..Len(unresolved) |-> SyntheticRow(unresolved[i])]
            /\ \A i \in 1..Len(SyntheticRows) :
                   /\ SyntheticRows[i].suggested_action = "missing_url_or_redacted"
                   /\ ~SyntheticRows[i].online

ExpectedIds == SeqToSet(args.expected_miner)

ObservedIds == {report.miners[i].miner : i \in 1..Len(report.miners)}

GapIds == [i \in 1..Len(report.expected_miners_missing_rows) |->
              report.expected_miners_missing_rows[i].miner]

\* C7: the gap rows of the report are the expected miner ids that no miner row
\* carries, in ascending order without duplicates, each with the fixed state,
\* eligibility and action; no id is both a miner row and a gap row.
C7_GapsAreExpectedMinusObserved ==
    pc = "done" =>
        /\ SeqToSet(GapIds) = ExpectedIds \ ObservedIds
        /\ \A i, j \in 1..Len(GapIds) :
               i < j => RankIn(MinerIdOrder, GapIds[i]) < RankIn(MinerIdOrder, GapIds[j])
        /\ \A i \in 1..Len(GapIds) :
               report.expected_miners_missing_rows[i] =
                   [miner |-> GapIds[i],
                    state |-> "not_visible_in_public_api",
                    weekly_eligible |-> FALSE,
                    suggested_action |-> "check_node_url_then_upgrade_miner"]
        /\ SeqToSet(GapIds) \cap ObservedIds = {}

\* C7 witness: alpha was observed and expected; beta and gamma are the gaps
C7_Witness ==
    /\ pc = "done"
    /\ ObservedIds = {"alpha"}
    /\ ExpectedIds = {"alpha", "beta", "gamma"}
    /\ GapIds = <<"beta", "gamma">>

\* C8 as stated: a queried node is online iff its health fetch returned a JSON
\* value and no error; an error makes it not online; both error codes are kept.
C8_OnlineIffJsonAndNoError ==
    \A k \in 1..Len(fetch_log) :
        /\ node_rows[k].online <=>
               (fetch_log[k].health.payload.kind # "none" /\ fetch_log[k].health.err = NoErr)
        /\ fetch_log[k].health.err # NoErr => ~node_rows[k].online
        /\ node_rows[k].health_error = fetch_log[k].health.err
        /\ node_rows[k].miners_error = fetch_log[k].miners_err

\* C8 amended: a queried node is online iff its health fetch returned a JSON
\* object (a dict) and no error; an error makes it not online; both error
\* codes are kept unchanged in health_error and miners_error.
C8_OnlineIffDictAndNoError ==
    \A k \in 1..Len(fetch_log) :
        /\ node_rows[k].online <=>
               (fetch_log[k].health.payload.kind = "dict" /\ fetch_log[k].health.err = NoErr)
        /\ fetch_log[k].health.err # NoErr => ~node_rows[k].online
        /\ node_rows[k].health_error = fetch_log[k].health.err
        /\ node_rows[k].miners_error = fetch_log[k].miners_err

\* C8 witness: one node answered /health with JSON that is no object and is
\* not online; another node failed both fetches and its row keeps both codes
C8_Witness ==
    /\ Len(fetch_log) = 2
    /\ fetch_log[1].health = Fetched(JOther)
    /\ ~node_rows[1].online
    /\ node_rows[1].health_error = NoErr
    /\ fetch_log[2].health = Failed("timeout")
    /\ fetch_log[2].miners_err = "http_500"
    /\ ~node_rows[2].online
    /\ node_rows[2].health_error = "timeout"
    /\ node_rows[2].miners_error = "http_500"

RegistryOf(node_url) ==
    IF node_identity(node_url) \in DOMAIN registry_map
    THEN registry_map[node_identity(node_url)] ELSE NoRegistryRow

\* C9: no answer of a node makes build_report raise, and in the report the row
\* of every candidate is the one its own answers give (a node whose fetch
\* failed is not online), whatever the other nodes answered.
C9_NodeFailureNeverAborts ==
    /\ pc # "raised"
    /\ pc = "done" =>
           /\ Len(report.nodes) >= Len(node_urls)
           /\ \A k \in 1..Len(node_urls) :
                  /\ report.nodes[k] =
                         QueriedRow(node_urls[k], seed, RegistryOf(node_urls[k]),
                                    fetch_log[k].health, fetch_log[k].miners_err,
                                    network_version)
                  /\ fetch_log[k].health.err # NoErr => ~report.nodes[k].online

\* every fetch against the seed returned an error
SeedUnreachable ==
    /\ query_errors.seed_health # NoErr
    /\ query_errors.seed_epoch # NoErr
    /\ query_errors.seed_nodes # NoErr
    /\ Len(fetch_log) >= 1
    /\ fetch_log[1].health.err # NoErr
    /\ fetch_log[1].miners_err # NoErr

\* C10: with the seed unreachable build_report still returns a report, in
\* which every node row is offline, no node is payout-eligible, and the
\* seed's fetch errors are in query_errors.
C10_SeedDownAllOffline ==
    (pc \in {"done", "raised"} /\ SeedUnreachable) =>
        /\ pc = "done"
        /\ \A k \in 1..Len(report.nodes) :
               ~report.nodes[k].online /\ ~report.nodes[k].payout_eligible
        /\ report.query_errors.seed_health # NoErr
        /\ report.query_errors.seed_epoch # NoErr
        /\ report.query_errors.seed_nodes # NoErr

\* the registry rows whose url has the identity of this node URL
MatchingRows(node_url) ==
    {j \in 1..Len(registry_rows) : RegistryKey(registry_rows[j]) = node_identity(node_url)}

IsSeedCandidate(node_url) ==
    node_identity(node_url) = node_identity(normalize_base_url(args.seed_node))

\* C11: a queried node carries the metadata of the registry row of its
\* identity (the last one, if several); with no such row its ids default to the
\* identity and it is declared active iff it is the seed, so an unregistered
\* operator node is inactive_no_payout and never payout-eligible.
C11_RegistryByIdentitySeedDefault ==
    \A k \in 1..Len(node_rows) :
        k <= Len(node_urls) =>
            LET r == node_rows[k]
                key == node_identity(r.url)
                m == MatchingRows(r.url)
            IN  IF m = {}
                THEN /\ r.is_active <=> IsSeedCandidate(r.url)
                     /\ r.node_id = key /\ r.name = key /\ r.wallet = ""
                     /\ ~IsSeedCandidate(r.url) =>
                            (r.suggested_action = "inactive_no_payout" /\ ~r.payout_eligible)
                ELSE LET reg == registry_rows[SetMax(m)] IN
                     /\ r.node_id = OrText(reg.node_id, key)
                     /\ r.name = OrText(reg.name, key)
                     /\ r.wallet = reg.wallet
                     /\ reg.is_active # None => (r.is_active <=> reg.is_active[1])

\* C11 witness: the report holds the unregistered seed, declared active, and
\* an unregistered operator node that answered /health yet is inactive_no_payout
C11_Witness ==
    /\ pc = "done"
    /\ Len(node_urls) = 2
    /\ MatchingRows(node_rows[1].url) = {}
    /\ node_rows[1].is_active
    /\ node_rows[2].online
    /\ node_rows[2].suggested_action = "inactive_no_payout"
    /\ MatchingRows(node_rows[2].url) = {}
    /\ ~IsSeedCandidate(node_rows[2].url)

\* the indices of the node rows / miner rows of the report
NodeIdx == 1..Len(report.nodes)

MinerIdx == 1..Len(report.miners)

\* C12: every counter of the summary is the count of the matching rows of the
\* same report; version_mismatch_nodes counts the node rows whose action is
\* pay_weekly_and_upgrade_node and is the length of version_mismatch_nodes,
\* whose entries are those rows' URLs, so that equal rows give equal counters.
C12_SummaryCountsRows ==
    pc = "done" =>
        LET s == report.summary
            n == report.nodes
            m == report.miners
            upgrade == {k \in NodeIdx : n[k].suggested_action = "pay_weekly_and_upgrade_node"}
        IN  /\ s.nodes_scanned = Len(n)
            /\ s.active_nodes_online =
                   Cardinality({k \in NodeIdx : n[k].is_active /\ n[k].online})
            /\ s.active_nodes_offline =
                   Cardinality({k \in NodeIdx : n[k].is_active /\ ~n[k].online})
            /\ s.node_hosts_weekly_payout_eligible =
                   Cardinality({k \in NodeIdx : n[k].payout_eligible})
            /\ s.miners_observed = Len(m)
            /\ s.miners_weekly_payout_eligible =
                   Cardinality({k \in MinerIdx : m[k].weekly_eligible})
            /\ s.expected_miners_missing = Len(report.expected_miners_missing_rows)
            /\ s.version_mismatch_nodes = Cardinality(upgrade)
            /\ s.version_mismatch_nodes = Len(report.version_mismatch_nodes)
            /\ {report.version_mismatch_nodes[i].node_url :
                    i \in 1..Len(report.version_mismatch_nodes)} = {n[k].url : k \in upgrade}

\* C12 witness: three nodes scanned, one of them on another version than the
\* network, an active one offline, one miner observed, two expected ones missing
C12_Witness ==
    /\ pc = "done"
    /\ report.summary.nodes_scanned = 3
    /\ report.summary.version_mismatch_nodes = 1
    /\ report.summary.active_nodes_offline = 1
    /\ report.summary.active_nodes_online = 1
    /\ report.summary.miners_observed = 1
    /\ report.summary.miners_weekly_payout_eligible = 1
    /\ report.summary.expected_miners_missing = 2
    /\ \E k \in NodeIdx : ~report.nodes[k].is_active /\ ~report.nodes[k].online

\* the candidates in the order they are met: the seed, the registry rows that
\* carry a URL, the operator's URLs; and the first place of an identity there
CandidatesInOrder ==
    LET withUrl == SelectSeq(registry_rows, LAMBDA r : ~Unresolvable(r) /\ r.url.kind = "str")
    IN  <<args.seed_node>> \o [i \in 1..Len(withUrl) |-> withUrl[i].url.text] \o args.node_url

FirstSeenAt(key) ==
    LET c == CandidatesInOrder
        at == {i \in 1..Len(c) : /\ ~IsEmptyText(normalize_base_url(c[i]))
                                  /\ node_identity(normalize_base_url(c[i])) = key}
    IN  IF at = {} THEN 0 ELSE CHOOSE i \in at : \A j \in at : i <= j

\* C13: the node rows of the report are the candidates in first-seen order
\* (seed, registry order, operator order), followed by the synthetic rows of
\* the URL-less registry rows; the miner rows stand in strictly ascending
\* order of (age unknown, age, miner id), one per miner id sighted, each with
\* the largest timestamp sighted, whatever the order of the sightings.
C13_RowOrderIsDetermined ==
    pc = "done" =>
        LET n == report.nodes
            m == report.miners
            nq == Len(node_urls)
        IN  /\ \A k \in 1..nq : FirstSeenAt(node_identity(n[k].url)) > 0
            /\ \A k, l \in 1..nq :
                   k < l => FirstSeenAt(node_identity(n[k].url))
                                < FirstSeenAt(node_identity(n[l].url))
            /\ \A i \in 1..Len(CandidatesInOrder) :
                   ~IsEmptyText(normalize_base_url(CandidatesInOrder[i])) =>
                       \E k \in 1..nq : n[k].url.host # "-" /\
                           node_identity(n[k].url) =
                               node_identity(normalize_base_url(CandidatesInOrder[i]))
            /\ \A k \in NodeIdx : (k > nq) <=> (n[k].url = DashUrl)
            /\ {m[i].miner : i \in MinerIdx} = {MinerIdOf(s.row) : s \in folded} \ {""}
            /\ \A i \in MinerIdx :
                   m[i].last_attest = IF PositiveTimestamps(m[i].miner) = {} THEN None
                                      ELSE Some(SetMax(PositiveTimestamps(m[i].miner)))
            /\ \A i, j \in MinerIdx :
                   i < j =>
                       \/ m[i].age_h # None /\ m[j].age_h = None
                       \/ /\ m[i].age_h # None /\ m[j].age_h # None
                          /\ m[i].age_h[1] < m[j].age_h[1]
                       \/ /\ (m[i].age_h = None) = (m[j].age_h = None)
                          /\ m[i].age_h = m[j].age_h
                          /\ RankIn(MinerIdOrder, m[i].miner) < RankIn(MinerIdOrder, m[j].miner)

\* C13 witness: the operator's node comes after the seed and before the
\* synthetic row of a URL-less registry row; alpha was sighted before beta but
\* has no timestamp, so beta's row comes first
C13_Witness ==
    /\ pc = "done"
    /\ Len(node_urls) = 2
    /\ Len(report.nodes) = 3
    /\ report.nodes[1].url = seed
    /\ report.nodes[2].url = Url("https", "b", 8080, "", FALSE)
    /\ report.nodes[3].url = DashUrl
    /\ Len(report.miners) = 2
    /\ report.miners[1].miner = "beta"
    /\ report.miners[2].miner = "alpha"
    /\ report.miners[2].age_h = None
    /\ Sightings(node_miners)[1].row.miner.id = "alpha"

(***************************************************************************)
(* Properties of the node identity (SpecPure)                              *)
(***************************************************************************)
\* the port a URL string stands for: the written one, or the default of its
\* scheme (a string without scheme is read as https)
SpelledPort(u) ==
    IF u.port # 0 THEN u.port
    ELSE IF Lower(u.scheme) \in {"https", ""} THEN 443 ELSE 80

\* the strings that differ from u only by the case of the scheme, by a
\* trailing slash, or by writing the default port or leaving it out
SameNodeSpellings(u) ==
    {v \in SpellingInputs :
        /\ v.host = u.host
        /\ v.pad = u.pad
        /\ Lower(v.scheme) = Lower(u.scheme)
        /\ SpelledPort(v) = SpelledPort(u)}

\* C14: two URL strings that differ only by scheme case, trailing slash, or
\* the default port (443 for https, 80 otherwise) written or left out have the
\* same node_identity of their normalize_base_url forms, and _dedupe_preserve
\* keeps only the first of the two.
C14_SpellingsShareIdentity ==
    Returned("node_identity") =>
        \A v \in SameNodeSpellings(call.raw) :
            /\ node_identity(normalize_base_url(v)) = ret
            /\ _dedupe_preserve(<<call.raw, v>>) = <<normalize_base_url(call.raw)>>

\* C14 witness: HTTPS://a:443/ has the identity a:443, as https://a has
C14_Witness ==
    /\ Returned("node_identity")
    /\ call.raw = Url("HTTPS", "a", 443, "/", FALSE)
    /\ Url("https", "a", 0, "", FALSE) \in SameNodeSpellings(call.raw)
    /\ Cardinality(SameNodeSpellings(call.raw)) = 8
    /\ ret = "a:443"

(***************************************************************************)
(* Properties of load_expected_miners (SpecPure)                           *)
(***************************************************************************)
\* the part of a line before its first "#" (the whole line without one)
BeforeComment(line) ==
    LET hashes == {i \in 1..Len(line) : line[i] = "#"}
    IN  IF hashes = {} THEN line ELSE SubSeq(line, 1, SetMin(hashes) - 1)

IsSeparator(ch) == ch \in {",", " "}

\* the ids written in a text: its maximal runs of characters that are
\* neither commas nor whitespace
IdsWritten(text) ==
    {SubSeq(text, i, j) : <<i, j>> \in
        {ij \in (1..Len(text)) \X (1..Len(text)) :
            /\ ij[1] <= ij[2]
            /\ \A k \in ij[1]..ij[2] : ~IsSeparator(text[k])
            /\ ij[1] = 1 \/ IsSeparator(text[ij[1] - 1])
            /\ ij[2] = Len(text) \/ IsSeparator(text[ij[2] + 1])}}

\* C15: load_expected_miners returns the set of the ids written in the file:
\* per line, the maximal runs of non-separator characters before the first
\* "#"; blank lines and comments add nothing, and no id is empty.
C15_ExpectedFileIds ==
    (Returned("load_expected_miners") /\ call.path # "" /\ call.exists) =>
        /\ ~ret.raised
        /\ ret.value = UNION {IdsWritten(BeforeComment(call.lines[i])) :
                                 i \in 1..Len(call.lines)}
        /\ <<>> \notin ret.value
        /\ \A id \in ret.value : \A k \in 1..Len(id) : id[k] \in {"a", "b"}

\* C15 witness: the line b#a gives b (a is in its comment), the line a,b
\* gives a and b again: the set holds each id once
C15_Witness ==
    /\ Returned("load_expected_miners")
    /\ call.lines = << <<"b", "#", "a">>, <<"a", ",", "b">> >>
    /\ ret.value = { <<"a">>, <<"b">> }

\* C16: in the report every node row, queried or synthetic, is payout-eligible
\* iff it is both declared active and online; so the eligible count equals the
\* active-online count, the version-mismatch count does not exceed it, and
\* active online plus active offline does not exceed the nodes scanned.
C16_PayoutIffActiveAndOnline ==
    pc = "done" =>
        /\ \A k \in NodeIdx :
               report.nodes[k].payout_eligible <=>
                   (report.nodes[k].is_active /\ report.nodes[k].online)
        /\ report.summary.node_hosts_weekly_payout_eligible =
               report.summary.active_nodes_online
        /\ report.summary.version_mismatch_nodes <=
               report.summary.node_hosts_weekly_payout_eligible
        /\ report.summary.active_nodes_online + report.summary.active_nodes_offline <=
               report.summary.nodes_scanned

\* C16 witness: an active online node on another version is paid, an online
\* node that is not active is not, nor is the active URL-less registered node
C16_Witness ==
    /\ pc = "done"
    /\ Len(report.nodes) = 3
    /\ report.nodes[1].payout_eligible
    /\ report.nodes[1].suggested_action = "pay_weekly_and_upgrade_node"
    /\ report.nodes[2].online /\ ~report.nodes[2].is_active
    /\ ~report.nodes[2].payout_eligible
    /\ report.nodes[3].url = DashUrl
    /\ report.nodes[3].is_active /\ ~report.nodes[3].payout_eligible
    /\ report.summary.node_hosts_weekly_payout_eligible = 1
    /\ report.summary.version_mismatch_nodes = 1
    /\ report.summary.nodes_scanned = 3

(***************************************************************************)
(* Properties of the leaderboard (SpecXp)                                  *)
(***************************************************************************)
\* the rows of the table of a tracker text: the cells, without the blanks
\* around them, of the lines from the second after the header to the first
\* that does not start with "|"
TableOf(text) ==
    LET h == CHOOSE i \in 1..Len(text) : text[i].kind = "header"
        stop == {i \in (h + 2)..Len(text) : text[i].kind = "prose"}
        last == IF stop = {} THEN Len(text) ELSE SetMin(stop) - 1
    IN  [i \in 1..(last - h - 1) |->
            [k \in 1..Len(text[h + 1 + i].cells) |-> text[h + 1 + i].cells[k].text]]

\* the hunters of the starting table (the placeholder row is none)
StartRows == {r \in SeqToSet(TableOf(initial_content)) : r[2] # "_TBD_"}

RECURSIVE GainsOf(_, _)
GainsOf(hunter, i) ==
    IF i > Len(awards) THEN 0
    ELSE (IF "@" \o awards[i].actor = hunter THEN awards[i].gained_xp ELSE 0)
             + GainsOf(hunter, i + 1)

Awarded == {"@" \o awards[i].actor : i \in 1..Len(awards)}

\* the totals at which level_for_xp is compared
XpProbes ==
    {LEVELS[i][2] + d : i \in 1..Len(LEVELS), d \in {0 - 1, 0, 1}}
        \cup {XpOf(TableOf(content)[i][4]) : i \in 1..Len(TableOf(content))}

\* C17: after one or more calls of update_leaderboard the table holds one row
\* per hunter (the starting hunters and the actors); a hunter's XP is the
\* starting XP plus the gains awarded to them; the level of an awarded hunter
\* is level_for_xp of the total, a value of 1..10 that does not decrease with
\* the XP; the rows stand by non-increasing XP with ranks 1..n; a hunter that
\* was not awarded keeps XP, level and notes, and notes never change.
C17_LeaderboardInvariants ==
    (pc = "tracker" /\ awards # <<>>) =>
        LET t == TableOf(content)
            idx == 1..Len(t)
            startOf(h) == CHOOSE r \in StartRows : r[2] = h
            isStart(h) == \E r \in StartRows : r[2] = h
        IN  /\ \A i, j \in idx : i # j => t[i][2] # t[j][2]
            /\ {t[i][2] : i \in idx} = {r[2] : r \in StartRows} \cup Awarded
            /\ \A i \in idx :
                   /\ Len(t[i]) = 7
                   /\ XpOf(t[i][4]) = (IF isStart(t[i][2]) THEN XpOf(startOf(t[i][2])[4]) ELSE 0)
                                          + GainsOf(t[i][2], 1)
                   /\ t[i][2] \in Awarded =>
                          /\ t[i][5] = ToString(level_for_xp(XpOf(t[i][4])))
                          /\ t[i][4] = StrOfInt(XpOf(t[i][4]))
                   /\ t[i][2] \notin Awarded =>
                          /\ t[i][4] = startOf(t[i][2])[4]
                          /\ t[i][5] = startOf(t[i][2])[5]
                   /\ t[i][7] = IF isStart(t[i][2]) THEN startOf(t[i][2])[7]
                                ELSE "auto-tracked"
                   /\ t[i][1] = ToString(i)
            /\ \A i, j \in idx : i < j => XpOf(t[i][4]) >= XpOf(t[j][4])
            /\ \A a, b \in XpProbes :
                   /\ level_for_xp(a) \in 1..10
                   /\ a <= b => level_for_xp(a) <= level_for_xp(b)

\* C17 witness: after three awards a new hunter leads the table, and alice,
\* awarded 20 XP, reached level 3 with 500 XP ahead of bob, who was not awarded
C17_Witness ==
    /\ pc = "tracker"
    /\ Len(awards) = 3
    /\ Len(TableOf(content)) = 3
    /\ TableOf(content)[1][2] = "@carol"
    /\ TableOf(content)[1][5] = "10"
    /\ TableOf(content)[2][2] = "@bob"
    /\ TableOf(content)[2][4] = XpText(600, TRUE)
    /\ TableOf(content)[3][2] = "@alice"
    /\ XpOf(TableOf(content)[3][4]) = 500
    /\ TableOf(content)[3][5] = "3"
    /\ TableOf(content)[3][7] = "founder"

====
